---- MODULE Spec2Model ----
(***************************************************************************)
(* KYC document workflow of the trading-account portal.                    *)
(*                                                                         *)
(* The repository holds the workflow twice: the Redux slice                *)
(* (src/store/slices/kycSlice.ts) and the local state of the KYC upload    *)
(* page, next to the pure summary function of src/services/kycApi.ts.      *)
(* Spec is the slice; SpecPage is the upload page.                         *)
(***************************************************************************)
EXTENDS Integers, Sequences, FiniteSets, TLC

(***************************************************************************)
(* Bounds                                                                  *)
(***************************************************************************)
\* The clock stops here: every dispatched reducer takes one unit of time.
MaxTime == 6

\* Files the user picks from: fileName and fileSize (bytes) of the upload
\* payload, one of 2 MB and one of 15 MB.
Files == { [fileName |-> "a.jpg", fileSize |-> 2048576],
           [fileName |-> "b.pdf", fileSize |-> 15728640] }

(***************************************************************************)
(* Types                                                                   *)
(***************************************************************************)
\* The catalog's three required types, in catalog order.
RequiredDocuments == <<"ID_FRONT", "UTILITY_BILL", "BANK_STATEMENT">>

\* Document types the model uploads: the required ones and one optional.
DocumentType == {"ID_FRONT", "UTILITY_BILL", "BANK_STATEMENT", "ID_BACK"}

DocStatus == {"PENDING", "UNDER_REVIEW", "APPROVED", "REJECTED"}

\* Requests the HTTP client is given.
MaxRequests == 2
Requests == 1..MaxRequests

\* No request is re-sent more often than this.
MaxSends == 4

\* Users and access tokens of the auth payloads; NullUser and "null" for
\* null.
Users == { [id |-> "u1", firstName |-> "Ann"],
           [id |-> "u1", firstName |-> "Bob"] }
NullUser == [isNull |-> TRUE]
Tokens == {"access1", "access2", "access3"}

\* A request not made yet: its phase, the _retry mark of its config, the
\* status of its last response, how often it was sent and how often it had
\* the token refreshed, and how its promise settled.
NoRequest ==
    [phase |-> "idle", retry |-> FALSE, status |-> 0, sends |-> 0,
     refreshes |-> 0, result |-> "pending"]

\* maxSize '10MB' of every requirement, in bytes.
MaxFileSize == 10 * 1024 * 1024

\* Time at which the slice is constructed: the mock documents carry the
\* earlier timestamps 0 (Jan 15), 1 (Jan 16) and 2 (Jan 20).
StartTime == 3

Range(s) == { s[i] : i \in 1..Len(s) }

\* Number of elements of a sequence satisfying a status test.
CountStatus(docs, st) == Cardinality({ i \in 1..Len(docs) : docs[i].status = st })

\* Math.round(n / d * 100) for non-negative n: half rounds up.
RoundPercent(n, d) == (200 * n + d) \div (2 * d)

Min(a, b) == IF a < b THEN a ELSE b

\* A missing-type filter that takes a REJECTED document for absent.
MissingOf_rejected(required, docs) ==
    LET uploadedTypes == { docs[i].documentType :
                             i \in { j \in 1..Len(docs) :
                                       docs[j].status # "REJECTED" } }
    IN  SelectSeq(required, LAMBDA type : type \notin uploadedTypes)

\* requiredDocuments.filter(type => !uploadedTypes.includes(type))
MissingOf(required, docs) ==
    LET uploadedTypes == { docs[i].documentType : i \in 1..Len(docs) }
    IN  SelectSeq(required, LAMBDA type : type \notin uploadedTypes)

(***************************************************************************)
(* State                                                                   *)
(***************************************************************************)
VARIABLES
    documents,       \* state.documents
    summary,         \* state.summary
    uploadProgress,  \* state.uploadProgress
    loading,         \* state.loading
    uploading,       \* state.uploading
    now,             \* the wall clock read by new Date()
    last,            \* the reducer dispatched last and what it was given
    prev,            \* the value of last before that reducer was dispatched
    submitted,       \* a startVerificationSuccess has been dispatched
    \* The KYC upload page (KYCUpload and its RobustKycApiService).
    pageDocuments,         \* useState documents
    pageSummary,           \* useState summary; NullSummary for null
    pageLoading,           \* useState loading
    pageUploading,         \* useState uploading
    pageUploadProgress,    \* useState uploadProgress
    pageError,             \* useState error; "null" for null
    selectedDocumentType,  \* useState selectedDocumentType; "null" for null
    uploadModalVisible,    \* useState uploadModalVisible
    isApiAvailable,        \* RobustKycApiService.isApiAvailable
    apiChecked,            \* RobustKycApiService.apiChecked
    healthProbe,           \* the constructor's checkApiHealth is in flight
    uploadCall,            \* the uploadDocument call handleFileUpload awaits
    cancelRequested,       \* onCancel has fired during the awaited upload
    \* The auth slice, the browser's local storage and the HTTP client.
    auth,                  \* state.auth of the auth slice
    localStorage,          \* localStorage: accessToken, refreshToken, user
    requests               \* the requests of the HTTP client, by request

sliceVars == <<documents, summary, uploadProgress, loading, uploading,
               submitted>>

pageVars == <<pageDocuments, pageSummary, pageLoading, pageUploading,
              pageUploadProgress, pageError, selectedDocumentType,
              uploadModalVisible, isApiAvailable, apiChecked, healthProbe,
              uploadCall, cancelRequested>>

clientVars == <<auth, localStorage, requests>>

vars == <<sliceVars, pageVars, clientVars, now, last, prev>>

InitialDocuments ==
    << [id |-> "doc1", documentType |-> "ID_FRONT",
        fileName |-> "passport_front.jpg", status |-> "APPROVED",
        uploadedAt |-> 0, updatedAt |-> 1, fileSize |-> 2048576],
       [id |-> "doc2", documentType |-> "UTILITY_BILL",
        fileName |-> "utility_bill_jan.pdf", status |-> "PENDING",
        uploadedAt |-> 2, updatedAt |-> 2, fileSize |-> 1024000] >>

InitialSummary ==
    [ totalDocuments     |-> 2,
      approvedDocuments  |-> 1,
      pendingDocuments   |-> 1,
      rejectedDocuments  |-> 0,
      kycStatus          |-> "PENDING",
      kycProgress        |-> 67,
      requiredDocuments  |-> RequiredDocuments,
      missingDocuments   |-> <<"BANK_STATEMENT">>,
      canSubmitForReview |-> FALSE ]

\* One dispatch: the reducer, the id and type it was given, the payload (a
\* sequence of at most one document, or the documents a summary was computed
\* from) and whether the id or type was stored or the call answered.
Dispatched(op, id, type, doc, found) ==
    [op |-> op, id |-> id, documentType |-> type, doc |-> doc, found |-> found]

NoLast == Dispatched("init", "", "", <<>>, FALSE)

\* useState(null) of the page's summary.
NullSummary == [isNull |-> TRUE]

\* No uploadDocument call is awaited.
NoCall == [path |-> "none"]

\* The page and its API service right after construction: the constructor
\* has started its health probe, nothing is loaded.
PageInitial ==
    /\ pageDocuments = <<>>
    /\ pageSummary = NullSummary
    /\ pageLoading = FALSE
    /\ pageUploading = FALSE
    /\ pageUploadProgress = 0
    /\ pageError = "null"
    /\ selectedDocumentType = "null"
    /\ uploadModalVisible = FALSE
    /\ isApiAvailable = FALSE
    /\ apiChecked = FALSE
    /\ healthProbe = TRUE
    /\ uploadCall = NoCall
    /\ cancelRequested = FALSE

SliceInitial ==
    /\ documents = InitialDocuments
    /\ summary = InitialSummary
    /\ uploadProgress = 0
    /\ loading = FALSE
    /\ uploading = FALSE
    /\ submitted = FALSE

\* The auth slice with nothing restored from local storage, an empty local
\* storage, and no request made.
ClientInitial ==
    /\ auth = [user |-> NullUser, token |-> "null", isAuthenticated |-> FALSE,
               loading |-> FALSE, error |-> "null"]
    /\ localStorage = [accessToken |-> "null", refreshToken |-> "null",
                       user |-> NullUser]
    /\ requests = [r \in Requests |-> NoRequest]

Init ==
    /\ SliceInitial
    /\ PageInitial
    /\ ClientInitial
    /\ now = StartTime
    /\ last = NoLast
    /\ prev = NoLast

(***************************************************************************)
(* Reducers of the slice, as functions of the state they read              *)
(***************************************************************************)
\* state.documents.findIndex(doc => doc.documentType === type); 0 for -1.
findIndex(docs, type) ==
    LET hits == { i \in 1..Len(docs) : docs[i].documentType = type }
    IN  IF hits = {} THEN 0 ELSE CHOOSE i \in hits : \A j \in hits : i <= j

\* addDocument without the replacement branch: every payload is pushed.
addDocument_push(docs, payload) == Append(docs, payload)

\* addDocument that keeps the stored document when the type is already there.
addDocument_keep(docs, payload) ==
    IF findIndex(docs, payload.documentType) # 0 THEN docs
    ELSE Append(docs, payload)

addDocument(docs, payload) ==
    LET existingIndex == findIndex(docs, payload.documentType)
    IN  IF existingIndex # 0
        THEN [docs EXCEPT ![existingIndex] = payload]
        ELSE Append(docs, payload)

removeDocument(docs, id) == SelectSeq(docs, LAMBDA doc : doc.id # id)

updateDocumentStatus(docs, id, status, t) ==
    LET hits == { i \in 1..Len(docs) : docs[i].id = id }
    IN  IF hits = {} THEN docs
        ELSE LET k == CHOOSE i \in hits : \A j \in hits : i <= j
             IN  [docs EXCEPT ![k] = [@ EXCEPT !.status = status,
                                               !.updatedAt = t]]

\* uploadDocumentSuccess with the progress taken from the missing types.
uploadSummary_missing(sum, docs) ==
    LET missing == MissingOf(sum.requiredDocuments, docs)
        canSubmit == Len(missing) = 0
    IN  [ sum EXCEPT
            !.totalDocuments     = Len(docs),
            !.pendingDocuments   = CountStatus(docs, "PENDING"),
            !.approvedDocuments  = CountStatus(docs, "APPROVED"),
            !.rejectedDocuments  = CountStatus(docs, "REJECTED"),
            !.kycProgress        = Min(RoundPercent(Len(missing), 3), 100),
            !.missingDocuments   = missing,
            !.canSubmitForReview = canSubmit,
            !.kycStatus          = IF canSubmit THEN "UNDER_REVIEW"
                                   ELSE "PENDING" ]

\* uploadDocumentSuccess that leaves the status PENDING until a submit.
uploadSummary_pending(sum, docs) ==
    LET missing == MissingOf(sum.requiredDocuments, docs)
    IN  [ sum EXCEPT
            !.totalDocuments     = Len(docs),
            !.pendingDocuments   = CountStatus(docs, "PENDING"),
            !.approvedDocuments  = CountStatus(docs, "APPROVED"),
            !.rejectedDocuments  = CountStatus(docs, "REJECTED"),
            !.kycProgress        = Min(RoundPercent(Len(docs), 3), 100),
            !.missingDocuments   = missing,
            !.canSubmitForReview = Len(missing) = 0,
            !.kycStatus          = "PENDING" ]

\* The summary uploadDocumentSuccess writes after addDocument.
uploadSummary(sum, docs) ==
    LET missing == MissingOf(sum.requiredDocuments, docs)
        canSubmit == Len(missing) = 0
    IN  [ sum EXCEPT
            !.totalDocuments     = Len(docs),
            !.pendingDocuments   = CountStatus(docs, "PENDING"),
            !.approvedDocuments  = CountStatus(docs, "APPROVED"),
            !.rejectedDocuments  = CountStatus(docs, "REJECTED"),
            !.kycProgress        = Min(RoundPercent(Len(docs), 3), 100),
            !.missingDocuments   = missing,
            !.canSubmitForReview = canSubmit,
            !.kycStatus          = IF canSubmit THEN "UNDER_REVIEW"
                                   ELSE "PENDING" ]

\* deleteDocumentSuccess that counts down instead of counting the documents.
deleteSummary_decrement(sum, docs) ==
    LET missing == MissingOf(sum.requiredDocuments, docs)
        canSubmit == Len(missing) = 0
    IN  [ sum EXCEPT
            !.totalDocuments     = @ - 1,
            !.pendingDocuments   = CountStatus(docs, "PENDING"),
            !.approvedDocuments  = CountStatus(docs, "APPROVED"),
            !.rejectedDocuments  = CountStatus(docs, "REJECTED"),
            !.kycProgress        = Min(RoundPercent(Len(docs), 3), 100),
            !.missingDocuments   = missing,
            !.canSubmitForReview = canSubmit,
            !.kycStatus          = IF Len(docs) = 0 THEN "NOT_UPLOADED"
                                   ELSE IF canSubmit THEN "UNDER_REVIEW"
                                   ELSE "PENDING" ]

\* deleteDocumentSuccess that never leaves UNDER_REVIEW.
deleteSummary_sticky(sum, docs) ==
    LET missing == MissingOf(sum.requiredDocuments, docs)
        canSubmit == Len(missing) = 0
    IN  [ sum EXCEPT
            !.totalDocuments     = Len(docs),
            !.pendingDocuments   = CountStatus(docs, "PENDING"),
            !.approvedDocuments  = CountStatus(docs, "APPROVED"),
            !.rejectedDocuments  = CountStatus(docs, "REJECTED"),
            !.kycProgress        = Min(RoundPercent(Len(docs), 3), 100),
            !.missingDocuments   = missing,
            !.canSubmitForReview = canSubmit,
            !.kycStatus          = IF sum.kycStatus = "UNDER_REVIEW"
                                   THEN "UNDER_REVIEW"
                                   ELSE IF Len(docs) = 0 THEN "NOT_UPLOADED"
                                   ELSE IF canSubmit THEN "UNDER_REVIEW"
                                   ELSE "PENDING" ]

\* The summary deleteDocumentSuccess writes after removeDocument.
deleteSummary(sum, docs) ==
    LET missing == MissingOf(sum.requiredDocuments, docs)
        canSubmit == Len(missing) = 0
    IN  [ sum EXCEPT
            !.totalDocuments     = Len(docs),
            !.pendingDocuments   = CountStatus(docs, "PENDING"),
            !.approvedDocuments  = CountStatus(docs, "APPROVED"),
            !.rejectedDocuments  = CountStatus(docs, "REJECTED"),
            !.kycProgress        = Min(RoundPercent(Len(docs), 3), 100),
            !.missingDocuments   = missing,
            !.canSubmitForReview = canSubmit,
            !.kycStatus          = IF Len(docs) = 0 THEN "NOT_UPLOADED"
                                   ELSE IF canSubmit THEN "UNDER_REVIEW"
                                   ELSE "PENDING" ]

\* The summary startVerificationSuccess writes.
verificationSummary(sum) ==
    [sum EXCEPT !.kycStatus = "UNDER_REVIEW", !.kycProgress = 100]

\* documents.forEach of startVerificationSuccess.
verificationDocuments(docs, t) ==
    [ i \in 1..Len(docs) |->
        IF docs[i].status = "PENDING"
        THEN [docs[i] EXCEPT !.status = "UNDER_REVIEW", !.updatedAt = t]
        ELSE docs[i] ]

(***************************************************************************)
(* Inputs                                                                  *)
(***************************************************************************)
\* The document a finished upload delivers: a fresh id taken from the clock
\* (Date.now().toString()), status PENDING, both timestamps the current time.
NewDocument(type, file) ==
    [ id |-> ToString(now), documentType |-> type,
      fileName |-> file.fileName, status |-> "PENDING",
      uploadedAt |-> now, updatedAt |-> now, fileSize |-> file.fileSize ]

\* Ids a caller may name: the mock ids and every id the clock can give.
DocumentIds == {"doc1", "doc2"} \cup { ToString(t) : t \in StartTime..MaxTime }

HasId(docs, id) == \E i \in 1..Len(docs) : docs[i].id = id

(***************************************************************************)
(* Actions of the slice                                                    *)
(***************************************************************************)
AddDocument ==
    \E type \in DocumentType, file \in Files :
        LET payload == NewDocument(type, file) IN
        /\ now < MaxTime
        /\ documents' = addDocument(documents, payload)
        /\ uploading' = FALSE
        /\ uploadProgress' = 100
        /\ now' = now + 1
        /\ last' = Dispatched("addDocument", payload.id, type, <<payload>>,
                               findIndex(documents, type) # 0)
        /\ prev' = last
        /\ UNCHANGED <<summary, loading, submitted, pageVars, clientVars>>

RemoveDocument ==
    \E id \in DocumentIds :
        /\ now < MaxTime
        /\ documents' = removeDocument(documents, id)
        /\ now' = now + 1
        /\ last' = Dispatched("removeDocument", id, "", <<>>,
                               HasId(documents, id))
        /\ prev' = last
        /\ UNCHANGED <<summary, uploadProgress, loading, uploading, submitted,
                       pageVars, clientVars>>

UpdateDocumentStatus ==
    \E id \in DocumentIds, status \in DocStatus :
        /\ now < MaxTime
        /\ documents' = updateDocumentStatus(documents, id, status, now)
        /\ now' = now + 1
        /\ last' = Dispatched("updateDocumentStatus", id, "", <<>>,
                               HasId(documents, id))
        /\ prev' = last
        /\ UNCHANGED <<summary, uploadProgress, loading, uploading, submitted,
                       pageVars, clientVars>>

UploadDocumentSuccess ==
    \E type \in DocumentType, file \in Files :
        LET payload == NewDocument(type, file) IN
        /\ now < MaxTime
        /\ documents' = addDocument(documents, payload)
        /\ uploading' = FALSE
        /\ uploadProgress' = 100
        /\ summary' = uploadSummary(summary, documents')
        /\ now' = now + 1
        /\ last' = Dispatched("uploadDocumentSuccess", payload.id, type, <<payload>>,
                               findIndex(documents, type) # 0)
        /\ prev' = last
        /\ UNCHANGED <<loading, submitted, pageVars, clientVars>>

DeleteDocumentSuccess ==
    \E id \in DocumentIds :
        /\ now < MaxTime
        /\ documents' = removeDocument(documents, id)
        /\ loading' = FALSE
        /\ summary' = deleteSummary(summary, documents')
        /\ now' = now + 1
        /\ last' = Dispatched("deleteDocumentSuccess", id, "", <<>>,
                               HasId(documents, id))
        /\ prev' = last
        /\ UNCHANGED <<uploadProgress, uploading, submitted, pageVars,
                       clientVars>>

StartVerificationSuccess ==
    /\ now < MaxTime
    /\ loading' = FALSE
    /\ summary' = verificationSummary(summary)
    /\ documents' = verificationDocuments(documents, now)
    /\ now' = now + 1
    /\ submitted' = TRUE
    /\ last' = Dispatched("startVerificationSuccess", "", "", <<>>,
                           summary.canSubmitForReview)
    /\ prev' = last
    /\ UNCHANGED <<uploadProgress, uploading, pageVars, clientVars>>

ResetKyc ==
    /\ now < MaxTime
    /\ documents' = InitialDocuments
    /\ summary' = InitialSummary
    /\ uploadProgress' = 0
    /\ loading' = FALSE
    /\ uploading' = FALSE
    /\ submitted' = FALSE
    /\ now' = now + 1
    /\ last' = Dispatched("resetKyc", "", "", <<>>, FALSE)
    /\ prev' = last
    /\ UNCHANGED <<pageVars, clientVars>>

Next ==
    \/ AddDocument
    \/ RemoveDocument
    \/ UpdateDocumentStatus
    \/ UploadDocumentSuccess
    \/ DeleteDocumentSuccess
    \/ StartVerificationSuccess
    \/ ResetKyc

Spec == Init /\ [][Next]_vars

(***************************************************************************)
(* services/kycApi.ts: the summary computed from a document list           *)
(***************************************************************************)
calculateKycSummary(docs) ==
    LET requiredDocuments == RequiredDocuments
        totalDocuments == Len(docs)
        approvedDocuments == CountStatus(docs, "APPROVED")
        pendingDocuments == CountStatus(docs, "PENDING")
        rejectedDocuments == CountStatus(docs, "REJECTED")
        underReviewDocuments == CountStatus(docs, "UNDER_REVIEW")
        missingDocuments == MissingOf(requiredDocuments, docs)
        uploadedRequiredDocs == Len(requiredDocuments) - Len(missingDocuments)
        kycProgress == RoundPercent(uploadedRequiredDocs, Len(requiredDocuments))
        kycStatus ==
            IF totalDocuments = 0 THEN "NOT_UPLOADED"
            ELSE IF Len(missingDocuments) > 0 THEN "PENDING"
            ELSE IF \/ underReviewDocuments > 0
                    \/ (pendingDocuments > 0 /\ Len(missingDocuments) = 0)
                 THEN "UNDER_REVIEW"
            ELSE IF approvedDocuments = Len(requiredDocuments) THEN "APPROVED"
            ELSE IF rejectedDocuments > 0 THEN "REJECTED"
            ELSE "PENDING"
    IN  [ totalDocuments     |-> totalDocuments,
          approvedDocuments  |-> approvedDocuments,
          pendingDocuments   |-> pendingDocuments,
          rejectedDocuments  |-> rejectedDocuments,
          kycStatus          |-> kycStatus,
          kycProgress        |-> kycProgress,
          requiredDocuments  |-> requiredDocuments,
          missingDocuments   |-> missingDocuments,
          canSubmitForReview |-> /\ Len(missingDocuments) = 0
                                 /\ kycStatus # "UNDER_REVIEW"
                                 /\ kycStatus # "APPROVED" ]

(***************************************************************************)
(* The dashboard: loadRealData fetches the summary of services/kycApi.ts   *)
(* and stores it in the slice with setSummary                              *)
(***************************************************************************)
\* The catalog: the required types, then the optional ones.
CatalogTypes ==
    <<"ID_FRONT", "UTILITY_BILL", "BANK_STATEMENT", "ID_BACK", "PASSPORT">>

\* Statuses the fetched documents are drawn from: any status for a required
\* type, a reviewer's decision for an optional one; "absent" for no document.
RequiredStatuses == DocStatus \cup {"absent"}
OptionalStatuses == {"APPROVED", "REJECTED", "absent"}

\* What GET /kyc/documents answers to getDocuments: at most one document per
\* catalog type.
StoredDocument(type, status) ==
    [ id |-> "srv_" \o type, documentType |-> type,
      fileName |-> "stored.pdf", status |-> status,
      uploadedAt |-> 0, updatedAt |-> 0, fileSize |-> 1 ]

StoredDocuments ==
    { LET all == [ i \in 1..Len(CatalogTypes) |->
                     StoredDocument(CatalogTypes[i], st[i]) ]
      IN  SelectSeq(all, LAMBDA doc : doc.status # "absent") :
        st \in { f \in [1..Len(CatalogTypes) -> RequiredStatuses] :
                    \A i \in 1..Len(CatalogTypes) :
                       CatalogTypes[i] \notin Range(RequiredDocuments)
                          => f[i] \in OptionalStatuses } }

\* The default summary getKycSummary returns when getDocuments throws.
DefaultSummary ==
    [ totalDocuments     |-> 0,
      approvedDocuments  |-> 0,
      pendingDocuments   |-> 0,
      rejectedDocuments  |-> 0,
      kycStatus          |-> "NOT_UPLOADED",
      kycProgress        |-> 0,
      requiredDocuments  |-> RequiredDocuments,
      missingDocuments   |-> RequiredDocuments,
      canSubmitForReview |-> FALSE ]

\* getKycSummary: the summary of the fetched documents, or the default one.
getKycSummary(ok, served) ==
    IF ok THEN calculateKycSummary(served) ELSE DefaultSummary

\* loadRealData of the dashboard: dispatch(setSummary(await getKycSummary())).
LoadRealData ==
    \E ok \in BOOLEAN, served \in StoredDocuments :
        /\ ok \/ served = <<>>
        /\ summary' = getKycSummary(ok, served)
        /\ loading' = FALSE
        /\ last' = Dispatched("setSummary", "", "", served, ok)
        /\ UNCHANGED <<documents, uploadProgress, uploading, submitted,
                       pageVars, clientVars, now, prev>>

NextDashboard ==
    \/ LoadRealData

SpecDashboard == Init /\ [][NextDashboard]_vars

(***************************************************************************)
(* The KYC upload page                                                     *)
(*                                                                         *)
(* The page computes kycProgress as total / 3 * 100 without rounding, so   *)
(* the page's summary holds kycProgress in thirds of a percent: 300 is     *)
(* 100%, 200 is 66.66..%, and a percentage p from the server is 3 * p.     *)
(***************************************************************************)
Thirds(percent) == 3 * percent

Max(a, b) == IF a > b THEN a ELSE b

\* getDocuments.mockFallback
MockDocuments == InitialDocuments

MockSummary ==
    [ totalDocuments     |-> Len(MockDocuments),
      approvedDocuments  |-> CountStatus(MockDocuments, "APPROVED"),
      pendingDocuments   |-> CountStatus(MockDocuments, "PENDING"),
      rejectedDocuments  |-> CountStatus(MockDocuments, "REJECTED"),
      kycStatus          |-> "PENDING",
      kycProgress        |-> Thirds(67),
      missingDocuments   |-> <<"BANK_STATEMENT">>,
      canSubmitForReview |-> FALSE ]

\* What the backend answers to GET /api/kyc/documents: one stored document
\* at most per required type, in catalog order, with any status, and the
\* summary the repository computes for such a list.
ServerDocument(type, status) ==
    [ id |-> "srv_" \o type, documentType |-> type,
      fileName |-> "stored.pdf", status |-> status,
      uploadedAt |-> 0, updatedAt |-> 0, fileSize |-> 1 ]

ServerStatuses == {"PENDING", "APPROVED", "REJECTED", "absent"}

ServerDocuments ==
    { LET all == [ i \in 1..Len(RequiredDocuments) |->
                     ServerDocument(RequiredDocuments[i], st[i]) ]
      IN  SelectSeq(all, LAMBDA doc : doc.status # "absent") :
        st \in [1..Len(RequiredDocuments) -> ServerStatuses] }

ServerSummary(docs) ==
    LET sum == calculateKycSummary(docs)
    IN  [ totalDocuments     |-> sum.totalDocuments,
          approvedDocuments  |-> sum.approvedDocuments,
          pendingDocuments   |-> sum.pendingDocuments,
          rejectedDocuments  |-> sum.rejectedDocuments,
          kycStatus          |-> sum.kycStatus,
          kycProgress        |-> Thirds(sum.kycProgress),
          missingDocuments   |-> sum.missingDocuments,
          canSubmitForReview |-> sum.canSubmitForReview ]

\* setDocuments(prev => [...prev.filter(type differs), result.document])
pageAddDocument(docs, type, doc) ==
    Append(SelectSeq(docs, LAMBDA d : d.documentType # type), doc)

\* The summary handleFileUpload sets; docs is the list before the upload.
pageUploadSummary(sum, docs, type) ==
    LET total == Len(docs) + 1
    IN  [ sum EXCEPT
            !.totalDocuments   = total,
            !.pendingDocuments = @ + 1,
            !.missingDocuments = SelectSeq(@, LAMBDA t : t # type),
            !.kycProgress      = Min(total * 100, Thirds(100)) ]

\* The summary handleDeleteDocument sets when the document was found.
pageDeleteSummary(sum, docToDelete) ==
    LET total == sum.totalDocuments - 1
    IN  [ sum EXCEPT
            !.totalDocuments   = total,
            !.pendingDocuments = @ - 1,
            !.missingDocuments = Append(@, docToDelete.documentType),
            !.kycProgress      = Max(total * 100, 0) ]

\* The summary handleStartVerification sets.
pageVerificationSummary(sum) ==
    [sum EXCEPT !.kycStatus = "UNDER_REVIEW", !.kycProgress = Thirds(100)]

\* safeApiCall: the health check of the first call, then the real call when
\* the API is available.  probeOk and callOk are what the network does.
\* The result is <<real, isApiAvailable', apiChecked'>>, real telling whether
\* the real call's result is returned rather than the fallback's.  A failed
\* probe and a failed call end alike, so the handlers draw one network
\* outcome for both.
safeApiCall(probeOk, callOk) ==
    LET available == IF apiChecked THEN isApiAvailable ELSE probeOk
    IN  IF ~available THEN <<FALSE, FALSE, TRUE>>
        ELSE IF callOk THEN <<TRUE, TRUE, TRUE>>
        ELSE <<FALSE, FALSE, TRUE>>

\* The constructor's checkApiHealth returns from its fetch.
CheckApiHealth ==
    \E ok \in BOOLEAN :
        /\ healthProbe
        /\ healthProbe' = FALSE
        /\ isApiAvailable' = ok
        /\ apiChecked' = TRUE
        /\ UNCHANGED <<sliceVars, clientVars, pageDocuments, pageSummary,
                       pageLoading,
                       pageUploading, pageUploadProgress, pageError,
                       selectedDocumentType, uploadModalVisible, uploadCall,
                       cancelRequested, now, last, prev>>

\* loadKycData, run on mount and by Refresh / Retry Connection, buttons the
\* open upload modal masks.  It reads no clock: the served documents carry
\* the server's timestamps.
LoadKycData ==
    \E ok \in BOOLEAN :
        LET call == safeApiCall(ok, ok) IN
        /\ ~uploadModalVisible
        /\ isApiAvailable' = call[2]
        /\ apiChecked' = call[3]
        /\ IF call[1]
           THEN \E served \in ServerDocuments :
                    /\ pageDocuments' = served
                    /\ pageSummary' = ServerSummary(served)
           ELSE /\ pageDocuments' = MockDocuments
                /\ pageSummary' = MockSummary
        /\ pageError' = "null"
        /\ pageLoading' = FALSE
        /\ last' = Dispatched("loadKycData", "", "", <<>>, call[1])
        /\ UNCHANGED <<sliceVars, clientVars, pageUploading,
                       pageUploadProgress,
                       selectedDocumentType, uploadModalVisible, healthProbe,
                       uploadCall, cancelRequested, now, prev>>

\* handleUploadClick: the Upload button of one requirement card.  The cards
\* are rendered from the requirements, which loadKycData sets; a card shows
\* the button only while no document of its type is stored.
HandleUploadClick ==
    \E type \in Range(RequiredDocuments) :
        /\ pageSummary # NullSummary
        /\ ~uploadModalVisible
        /\ findIndex(pageDocuments, type) = 0
        /\ selectedDocumentType' = type
        /\ uploadModalVisible' = TRUE
        /\ UNCHANGED <<sliceVars, clientVars, pageDocuments, pageSummary,
                       pageLoading,
                       pageUploading, pageUploadProgress, pageError,
                       isApiAvailable, apiChecked, healthProbe, uploadCall,
                       cancelRequested, now, last, prev>>

\* The upload modal's onCancel (Esc, a click on the mask, the close button
\* while it is shown): it closes the modal unless an upload is awaited, and
\* then it does nothing.
CancelUploadModal ==
    /\ uploadModalVisible
    /\ IF pageUploading
       THEN /\ cancelRequested' = TRUE
            /\ UNCHANGED <<uploadModalVisible, selectedDocumentType>>
       ELSE /\ uploadModalVisible' = FALSE
            /\ selectedDocumentType' = "null"
            /\ UNCHANGED cancelRequested
    /\ UNCHANGED <<sliceVars, clientVars, pageDocuments, pageSummary,
                   pageLoading,
                   pageUploading, pageUploadProgress, pageError,
                   isApiAvailable, apiChecked, healthProbe, uploadCall, now,
                   last, prev>>

\* handleFileUpload up to its await: the file is dropped, and uploadDocument
\* enters safeApiCall, which takes the real call when the API is available
\* and the mock fallback otherwise.
HandleFileUpload ==
    \E file \in Files, probeOk \in BOOLEAN :
        LET available == IF apiChecked THEN isApiAvailable ELSE probeOk IN
        /\ now < MaxTime
        /\ uploadModalVisible
        /\ selectedDocumentType # "null"
        /\ ~pageUploading
        /\ pageUploading' = TRUE
        /\ pageError' = "null"
        /\ pageUploadProgress' = 0
        /\ isApiAvailable' = available
        /\ apiChecked' = TRUE
        /\ uploadCall' = [path |-> IF available THEN "real" ELSE "mock",
                          file |-> file]
        /\ cancelRequested' = FALSE
        /\ UNCHANGED <<sliceVars, clientVars, pageDocuments, pageSummary,
                       pageLoading,
                       selectedDocumentType, uploadModalVisible, healthProbe,
                       now, last, prev>>

\* The real upload call throws: safeApiCall marks the API unavailable and
\* carries on with the mock fallback.
UploadCallFails ==
    /\ uploadCall.path = "real"
    /\ uploadCall' = [uploadCall EXCEPT !.path = "mock"]
    /\ isApiAvailable' = FALSE
    /\ UNCHANGED <<sliceVars, clientVars, pageDocuments, pageSummary,
                   pageLoading,
                   pageUploading, pageUploadProgress, pageError,
                   selectedDocumentType, uploadModalVisible, apiChecked,
                   healthProbe, cancelRequested, now, last, prev>>

\* One interval tick of the mock fallback: progress += 20, reported through
\* onProgress.  The real call reports no progress.
UploadProgressTick ==
    /\ uploadCall.path = "mock"
    /\ pageUploadProgress < 100
    /\ pageUploadProgress' = pageUploadProgress + 20
    /\ UNCHANGED <<sliceVars, clientVars, pageDocuments, pageSummary,
                   pageLoading,
                   pageUploading, pageError, selectedDocumentType,
                   uploadModalVisible, isApiAvailable, apiChecked,
                   healthProbe, uploadCall, cancelRequested, now, last, prev>>

\* handleFileUpload from its await to the end of its finally block: the
\* awaited call has resolved with the document.  The mock fallback resolves
\* in its tick to 100, whose progress report is rendered either on its own
\* (the tick above) or together with the handler's updates (from 80 here).
CompleteFileUpload ==
    LET document == NewDocument(selectedDocumentType, uploadCall.file) IN
    /\ pageUploading
    /\ \/ uploadCall.path = "real"
       \/ uploadCall.path = "mock" /\ pageUploadProgress >= 80
    /\ pageUploadProgress' =
          IF uploadCall.path = "mock" THEN 100 ELSE pageUploadProgress
    /\ pageDocuments' =
          pageAddDocument(pageDocuments, selectedDocumentType, document)
    /\ pageSummary' =
          IF pageSummary # NullSummary
          THEN pageUploadSummary(pageSummary, pageDocuments,
                                 selectedDocumentType)
          ELSE pageSummary
    /\ uploadModalVisible' = FALSE
    /\ selectedDocumentType' = "null"
    /\ pageUploading' = FALSE
    /\ uploadCall' = NoCall
    /\ cancelRequested' = FALSE
    /\ now' = now + 1
    /\ last' = Dispatched("handleFileUpload", document.id,
                          selectedDocumentType, <<document>>,
                          findIndex(pageDocuments, selectedDocumentType) # 0)
    /\ UNCHANGED <<sliceVars, clientVars, pageLoading, pageError,
                   isApiAvailable,
                   apiChecked, healthProbe, prev>>

\* handleDeleteDocument, from the Delete button of a stored document.
HandleDeleteDocument ==
    \E id \in { pageDocuments[i].id : i \in 1..Len(pageDocuments) },
       ok \in BOOLEAN :
        LET call == safeApiCall(ok, ok)
            hits == { i \in 1..Len(pageDocuments) : pageDocuments[i].id = id }
            docToDelete ==
                pageDocuments[CHOOSE i \in hits : \A j \in hits : i <= j]
        IN
        /\ now < MaxTime
        /\ ~uploadModalVisible
        /\ isApiAvailable' = call[2]
        /\ apiChecked' = call[3]
        /\ pageError' = "null"
        /\ pageDocuments' = removeDocument(pageDocuments, id)
        /\ pageSummary' =
              IF pageSummary # NullSummary /\ hits # {}
              THEN pageDeleteSummary(pageSummary, docToDelete)
              ELSE pageSummary
        /\ pageLoading' = FALSE
        /\ now' = now + 1
        /\ last' = Dispatched("handleDeleteDocument", id,
                              docToDelete.documentType, <<>>, call[1])
        /\ UNCHANGED <<sliceVars, clientVars, pageUploading,
                       pageUploadProgress,
                       selectedDocumentType, uploadModalVisible, healthProbe,
                       uploadCall, cancelRequested, prev>>

\* handleStartVerification: the Start Verification button, which is only
\* rendered while summary.canSubmitForReview is true.
HandleStartVerification ==
    \E ok \in BOOLEAN :
        LET call == safeApiCall(ok, ok) IN
        /\ now < MaxTime
        /\ ~uploadModalVisible
        /\ pageSummary # NullSummary
        /\ pageSummary.canSubmitForReview
        /\ isApiAvailable' = call[2]
        /\ apiChecked' = call[3]
        /\ pageError' = "null"
        /\ pageSummary' = pageVerificationSummary(pageSummary)
        /\ pageLoading' = FALSE
        /\ now' = now + 1
        /\ last' = Dispatched("handleStartVerification", "", "", <<>>, call[1])
        /\ UNCHANGED <<sliceVars, clientVars, pageDocuments, pageUploading,
                       pageUploadProgress, selectedDocumentType,
                       uploadModalVisible, healthProbe, uploadCall,
                       cancelRequested, prev>>

NextPage ==
    \/ CheckApiHealth
    \/ LoadKycData
    \/ HandleUploadClick
    \/ CancelUploadModal
    \/ HandleFileUpload
    \/ UploadCallFails
    \/ UploadProgressTick
    \/ CompleteFileUpload
    \/ HandleDeleteDocument
    \/ HandleStartVerification

SpecPage == Init /\ [][NextPage]_vars

(***************************************************************************)
(* The auth slice (authSlice) and the registration page                    *)
(***************************************************************************)
LoginStart ==
    /\ auth' = [auth EXCEPT !.loading = TRUE, !.error = "null"]
    /\ UNCHANGED <<sliceVars, pageVars, localStorage, requests, now, last,
                   prev>>

\* loginSuccess returns at once when the payload lacks the user or the token.
LoginSuccess ==
    \E user \in Users \cup {NullUser}, token \in Tokens \cup {"null"} :
        /\ IF user = NullUser \/ token = "null"
           THEN UNCHANGED <<auth, localStorage>>
           ELSE /\ auth' = [user |-> user, token |-> token,
                            isAuthenticated |-> TRUE, loading |-> FALSE,
                            error |-> "null"]
                /\ localStorage' = [localStorage EXCEPT
                                       !.user = user, !.accessToken = token]
        /\ last' = Dispatched("loginSuccess", "", "", <<>>,
                              user # NullUser /\ token # "null")
        /\ UNCHANGED <<sliceVars, pageVars, requests, now, prev>>

LoginFailure ==
    /\ auth' = [user |-> NullUser, token |-> "null", isAuthenticated |-> FALSE,
                loading |-> FALSE, error |-> "Login failed"]
    /\ localStorage' = [accessToken |-> "null", refreshToken |-> "null",
                        user |-> NullUser]
    /\ last' = Dispatched("loginFailure", "", "", <<>>, FALSE)
    /\ UNCHANGED <<sliceVars, pageVars, requests, now, prev>>

Logout ==
    /\ auth' = [user |-> NullUser, token |-> "null", isAuthenticated |-> FALSE,
                loading |-> FALSE, error |-> "null"]
    /\ localStorage' = [accessToken |-> "null", refreshToken |-> "null",
                        user |-> NullUser]
    /\ last' = Dispatched("logout", "", "", <<>>, FALSE)
    /\ UNCHANGED <<sliceVars, pageVars, requests, now, prev>>

ClearError ==
    /\ auth' = [auth EXCEPT !.error = "null"]
    /\ UNCHANGED <<sliceVars, pageVars, localStorage, requests, now, last,
                   prev>>

\* updateUser merges the payload into the stored user, if there is one.
UpdateUser ==
    \E firstName \in { user.firstName : user \in Users } :
        /\ IF auth.user # NullUser
           THEN LET user == [auth.user EXCEPT !.firstName = firstName]
                IN  /\ auth' = [auth EXCEPT !.user = user]
                    /\ localStorage' = [localStorage EXCEPT !.user = user]
           ELSE UNCHANGED <<auth, localStorage>>
        /\ last' = Dispatched("updateUser", "", "", <<>>, auth.user # NullUser)
        /\ UNCHANGED <<sliceVars, pageVars, requests, now, prev>>

\* refreshToken stores a non-empty payload as the token.
RefreshToken ==
    \E token \in Tokens \cup {"null"} :
        /\ IF token # "null"
           THEN /\ auth' = [auth EXCEPT !.token = token]
                /\ localStorage' = [localStorage EXCEPT !.accessToken = token]
           ELSE UNCHANGED <<auth, localStorage>>
        /\ last' = Dispatched("refreshToken", "", "", <<>>, token # "null")
        /\ UNCHANGED <<sliceVars, pageVars, requests, now, prev>>

NextAuth ==
    \/ LoginStart
    \/ LoginSuccess
    \/ LoginFailure
    \/ Logout
    \/ ClearError
    \/ UpdateUser
    \/ RefreshToken

SpecAuth == Init /\ [][NextAuth]_vars

(***************************************************************************)
(* The HTTP client (services/api.ts): the response interceptor             *)
(***************************************************************************)
\* handleAuthFailure: both tokens leave local storage.
handleAuthFailure(storage) ==
    [storage EXCEPT !.accessToken = "null", !.refreshToken = "null"]

\* A 401 is answered by a token refresh however often the request was sent.
shouldRefresh_always(status, retry) == status = 401

\* error.response?.status === 401 && originalRequest && !originalRequest._retry
shouldRefresh(status, retry) == status = 401 /\ ~retry

\* The registration page's handleSubmit on success: the tokens go to local
\* storage, the refresh token only when the response carries one, and
\* loginSuccess is dispatched.
Register ==
    \E user \in Users, token \in Tokens, withRefresh \in BOOLEAN :
        /\ ~auth.isAuthenticated
        /\ auth' = [user |-> user, token |-> token, isAuthenticated |-> TRUE,
                    loading |-> FALSE, error |-> "null"]
        /\ localStorage' =
              [ accessToken  |-> token,
                refreshToken |-> IF withRefresh THEN "refresh"
                                 ELSE localStorage.refreshToken,
                user         |-> user ]
        /\ UNCHANGED <<sliceVars, pageVars, requests, now, last, prev>>

\* this.api(config): a request is sent.
SendRequest ==
    \E r \in Requests :
        /\ requests[r].phase = "idle"
        /\ requests' = [requests EXCEPT ![r].phase = "sent", ![r].sends = 1]
        /\ UNCHANGED <<sliceVars, pageVars, auth, localStorage, now, last,
                       prev>>

\* The response interceptor runs on the response of a sent request, up to
\* its first await.
ReceiveResponse ==
    \E r \in Requests, status \in {200, 401, 500} :
        LET request == [requests[r] EXCEPT !.status = status] IN
        /\ requests[r].phase = "sent"
        /\ IF status = 200
           THEN /\ requests' = [requests EXCEPT
                      ![r] = [request EXCEPT !.phase = "done",
                                             !.result = "resolved"]]
                /\ UNCHANGED localStorage
           ELSE IF shouldRefresh(status, requests[r].retry)
           THEN IF localStorage.refreshToken # "null"
                THEN /\ requests[r].sends < MaxSends
                     /\ requests' = [requests EXCEPT
                           ![r] = [request EXCEPT !.retry = TRUE,
                                                  !.phase = "refreshing",
                                                  !.refreshes = @ + 1]]
                     /\ UNCHANGED localStorage
                ELSE /\ requests' = [requests EXCEPT
                           ![r] = [request EXCEPT !.retry = TRUE,
                                                  !.phase = "done",
                                                  !.result = "rejected"]]
                     /\ localStorage' = handleAuthFailure(localStorage)
           ELSE /\ requests' = [requests EXCEPT
                      ![r] = [request EXCEPT !.phase = "done",
                                             !.result = "rejected"]]
                /\ UNCHANGED localStorage
        /\ UNCHANGED <<sliceVars, pageVars, auth, now, last, prev>>

\* refreshAuthToken returns to the interceptor: with an access token, which
\* is stored and the request sent again; with a response that carries none;
\* or by throwing.
RefreshReturns ==
    \E r \in Requests, token \in Tokens \cup {"null", "throws"} :
        /\ requests[r].phase = "refreshing"
        /\ IF token \in Tokens
           THEN /\ localStorage' = [localStorage EXCEPT !.accessToken = token]
                /\ requests' = [requests EXCEPT ![r].phase = "sent",
                                                ![r].sends = @ + 1]
           ELSE /\ localStorage' = handleAuthFailure(localStorage)
                /\ requests' = [requests EXCEPT ![r].phase = "done",
                                                ![r].result = "rejected"]
        /\ UNCHANGED <<sliceVars, pageVars, auth, now, last, prev>>

NextHttp ==
    \/ Register
    \/ SendRequest
    \/ ReceiveResponse
    \/ RefreshReturns

SpecHttp == Init /\ [][NextHttp]_vars

(***************************************************************************)
(* Properties of the slice                                                 *)
(***************************************************************************)
UploadOps == {"addDocument", "uploadDocumentSuccess"}
DeleteOps == {"removeDocument", "deleteDocumentSuccess"}

\* Positions of the documents of one type.
OfType(docs, type) == { i \in 1..Len(docs) : docs[i].documentType = type }

\* The documents of every type but one, in list order.
OtherTypes(docs, type) == SelectSeq(docs, LAMBDA doc : doc.documentType # type)

\* Required types with no stored document, in catalog order.
Missing(docs) == MissingOf(RequiredDocuments, docs)

\* C1: in every state reachable by addDocument / uploadDocumentSuccess,
\* removeDocument / deleteDocumentSuccess, updateDocumentStatus,
\* startVerificationSuccess and resetKyc, the document list holds at most
\* one document per documentType.
C1_OneDocumentPerType ==
    \A i, j \in 1..Len(documents) :
        documents[i].documentType = documents[j].documentType => i = j

\* C1 witness: an addDocument hit a type that was already stored.
C1_Witness ==
    /\ last.op = "addDocument"
    /\ last.found
    /\ Len(documents) >= 2

\* C2: an upload of type T while a document of type T is stored leaves
\* exactly one document of type T, that document is the upload's payload
\* (id, fileName, fileSize, uploadedAt, updatedAt), and the documents of
\* every other type are left as they were.
C2_ReplaceByType ==
    [][ (last'.op \in UploadOps /\ last'.found) =>
          LET type == last'.documentType IN
          /\ Cardinality(OfType(documents', type)) = 1
          /\ \A i \in OfType(documents', type) : documents'[i] = last'.doc[1]
          /\ OtherTypes(documents', type) = OtherTypes(documents, type)
      ]_vars

\* C2 witness: an uploadDocumentSuccess replaced a stored document of its
\* type while a document of another type was stored too.
C2_Witness ==
    /\ last.op = "uploadDocumentSuccess"
    /\ last.found
    /\ OfType(documents, last.documentType) # {}
    /\ Len(OtherTypes(documents, last.documentType)) >= 1

\* C3: deleting the same id twice (removeDocument twice, or
\* deleteDocumentSuccess twice) leaves documents and summary as they were
\* after the first delete.
C3_IdempotentDelete ==
    [][ (last.op \in DeleteOps /\ last'.op = last.op /\ last'.id = last.id) =>
          /\ documents' = documents
          /\ summary' = summary
      ]_vars

\* C3 witness: a deleteDocumentSuccess repeated the one before it, which
\* had removed a stored document.
C3_Witness ==
    /\ last.op = "deleteDocumentSuccess"
    /\ prev.op = "deleteDocumentSuccess"
    /\ prev.id = last.id
    /\ prev.found

\* C4: deleting an id that is not stored is a no-op: documents and summary
\* (counts, status, progress, missing types, canSubmit) stay as they were.
C4_DeleteAbsentIsNoOp ==
    [][ (last'.op = "deleteDocumentSuccess" /\ ~last'.found) =>
          /\ documents' = documents
          /\ summary' = summary
      ]_vars

\* C5: canSubmitForReview is true exactly when no required type is missing
\* and the status is neither UNDER_REVIEW nor APPROVED.
C5_CompletenessGate ==
    summary.canSubmitForReview <=>
        /\ Len(summary.missingDocuments) = 0
        /\ summary.kycStatus \notin {"UNDER_REVIEW", "APPROVED"}

\* C6: a submit while a required type is missing moves no document to
\* UNDER_REVIEW and does not set the status to UNDER_REVIEW.
C6_SubmitNeedsAllRequired ==
    [][ (last'.op = "startVerificationSuccess" /\ Len(Missing(documents)) > 0) =>
          /\ Len(documents') = Len(documents)
          /\ \A i \in 1..Len(documents) :
                documents'[i].status = documents[i].status
          /\ (summary.kycStatus # "UNDER_REVIEW"
                => summary'.kycStatus # "UNDER_REVIEW")
      ]_vars

\* What a submit at time t makes of a document list: every PENDING document
\* is UNDER_REVIEW with updatedAt t, every other document is as it was.
Submitted(docs, t) ==
    [ i \in 1..Len(docs) |->
        IF docs[i].status = "PENDING"
        THEN [docs[i] EXCEPT !.status = "UNDER_REVIEW", !.updatedAt = t]
        ELSE docs[i] ]

\* C7: a successful submit moves every PENDING document to UNDER_REVIEW and
\* refreshes its updatedAt, and leaves the other documents and the set of
\* stored documents unchanged; in the slice and in the upload page alike.
C7_SubmitMovesPending ==
    [][ /\ last'.op = "startVerificationSuccess"
            => documents' = Submitted(documents, now)
        /\ last'.op = "handleStartVerification"
            => pageDocuments' = Submitted(pageDocuments, now)
      ]_vars

\* The slice's half of C7, which the slice meets.
C7_SliceSubmitMovesPending ==
    [][ last'.op = "startVerificationSuccess"
            => documents' = Submitted(documents, now) ]_vars

\* The summary right after an uploadDocumentSuccess that leaves all three
\* required types stored, no submit having happened.
AllUploadedBeforeSubmit ==
    /\ last.op = "uploadDocumentSuccess"
    /\ ~submitted
    /\ Len(Missing(documents)) = 0

C9_NoSecondSubmit ==
    last.op = "startVerificationSuccess" =>
        /\ summary.kycStatus = "UNDER_REVIEW"
        /\ ~summary.canSubmitForReview

\* C10: along consecutive uploads of distinct required types (nothing
\* deleted in between), kycProgress never decreases from one upload to the
\* next, the first upload after construction included.
C10_ProgressMonotone ==
    [][ ( /\ last.op \in {"init", "uploadDocumentSuccess"}
          /\ last'.op = "uploadDocumentSuccess"
          /\ last'.documentType \in Range(RequiredDocuments)
          /\ last'.documentType # last.documentType ) =>
          summary'.kycProgress >= summary.kycProgress
      ]_vars

\* C10 witness: two uploads of distinct required types in a row, the second
\* one adding a document.
C10_Witness ==
    /\ last.op = "uploadDocumentSuccess"
    /\ prev.op = "uploadDocumentSuccess"
    /\ last.documentType \in Range(RequiredDocuments)
    /\ prev.documentType \in Range(RequiredDocuments)
    /\ last.documentType # prev.documentType
    /\ ~last.found

\* C11: whenever the document store is empty, the summary has status
\* NOT_UPLOADED, progress 0 and the three required types missing in catalog
\* order: for calculateKycSummary of no documents, and for the page's summary
\* once its last document is deleted.
C11_EmptyStoreSummary ==
    /\ calculateKycSummary(<<>>).kycStatus = "NOT_UPLOADED"
    /\ calculateKycSummary(<<>>).kycProgress = 0
    /\ calculateKycSummary(<<>>).missingDocuments = RequiredDocuments
    /\ (pageSummary # NullSummary /\ Len(pageDocuments) = 0) =>
          /\ pageSummary.kycStatus = "NOT_UPLOADED"
          /\ pageSummary.kycProgress = 0
          /\ pageSummary.missingDocuments = RequiredDocuments

\* C12: a stored document of a required type can be deleted whatever its
\* status and the aggregate status, and after the delete its type is
\* missing and, other documents remaining, the aggregate status is PENDING.
C12_DeleteReopensSlot ==
    [][ ( /\ last'.op = "handleDeleteDocument"
          /\ last'.documentType \in Range(RequiredDocuments)
          /\ pageSummary # NullSummary ) =>
          /\ findIndex(pageDocuments', last'.documentType) = 0
          /\ last'.documentType \in Range(pageSummary'.missingDocuments)
          /\ (Len(pageDocuments') > 0 => pageSummary'.kycStatus = "PENDING")
      ]_vars

\* The slice's half of C12, which the slice meets.
C12_SliceDeleteReopensSlot ==
    [][ (last'.op = "deleteDocumentSuccess" /\ last'.found) =>
          \A i \in 1..Len(documents) :
             ( /\ documents[i].id = last'.id
               /\ documents[i].documentType \in Range(RequiredDocuments)
               /\ Len(documents') > 0 ) =>
                /\ documents[i].documentType
                      \in Range(summary'.missingDocuments)
                /\ summary'.kycStatus = "PENDING"
      ]_vars

\* C13: an upload whose file exceeds the requirement's maximum size fails
\* before any store mutation: when the awaited upload call of such a file
\* ends, the page's document list and summary are as they were and the error
\* is set.
C13_TooLargeLeavesStore ==
    [][ ( /\ uploadCall # NoCall
          /\ uploadCall' = NoCall
          /\ uploadCall.file.fileSize > MaxFileSize ) =>
          /\ pageDocuments' = pageDocuments
          /\ pageSummary' = pageSummary
          /\ pageError' # "null"
      ]_vars

\* C14: the stored summary always equals the summary recomputed from the
\* stored documents: total, approved, pending and rejected counts and the
\* missing required types, after addDocument, removeDocument,
\* updateDocumentStatus and startVerificationSuccess as after any other step.
C14_SummaryMatchesDocuments ==
    /\ summary.totalDocuments = Len(documents)
    /\ summary.approvedDocuments = CountStatus(documents, "APPROVED")
    /\ summary.pendingDocuments = CountStatus(documents, "PENDING")
    /\ summary.rejectedDocuments = CountStatus(documents, "REJECTED")
    /\ summary.missingDocuments = Missing(documents)

\* The steps the aggregate status is defined over: upload, delete, submit.
StatusOps ==
    {"uploadDocumentSuccess", "deleteDocumentSuccess", "startVerificationSuccess"}

\* Position of an aggregate status on NotStarted -> Incomplete ->
\* UnderReview -> {Approved, Rejected}.
StatusRank(status) ==
    CASE status = "NOT_UPLOADED" -> 0
      [] status = "PENDING" -> 1
      [] status = "UNDER_REVIEW" -> 2
      [] OTHER -> 3

\* The moves of the state machine: one step forward, and Rejected back to
\* Incomplete.
StatusMoves ==
    { <<"NOT_UPLOADED", "PENDING">>, <<"PENDING", "UNDER_REVIEW">>,
      <<"UNDER_REVIEW", "APPROVED">>, <<"UNDER_REVIEW", "REJECTED">>,
      <<"REJECTED", "PENDING">> }

CallFailed ==
    /\ apiChecked
    /\ isApiAvailable
    /\ ~isApiAvailable'
    /\ healthProbe' = healthProbe

\* C16: when a remote fetch, upload, delete or verify call fails, the error
\* is surfaced and nothing is fabricated: the page's error is set, and its
\* document list and summary are left as they were.
C16_FailureSurfaced ==
    [][ CallFailed =>
          /\ pageError' # "null"
          /\ pageDocuments' = pageDocuments
          /\ pageSummary' = pageSummary
      ]_vars

\* C17: the progress of one upload never decreases and is 100 when the
\* upload ends with its document stored, and while the upload is awaited a
\* progress of 100 is not shown before the document of the selected type is
\* in the document list.
C17_ProgressCoincidesWithInsert ==
    [][ /\ (pageUploading /\ pageUploading') =>
              pageUploadProgress' >= pageUploadProgress
        /\ (pageUploading /\ ~pageUploading') =>
              pageUploadProgress' = 100
        /\ (pageUploading' /\ pageUploadProgress' = 100) =>
              findIndex(pageDocuments', selectedDocumentType') # 0
      ]_vars

\* C18: closing the upload dialog cancels the awaited upload: once onCancel
\* has fired during an upload, the end of that upload leaves the document
\* list and the summary as they were.
C18_CancelledUploadInsertsNothing ==
    [][ (pageUploading /\ cancelRequested /\ ~pageUploading') =>
          /\ pageDocuments' = pageDocuments
          /\ pageSummary' = pageSummary
      ]_vars

\* C19: after a successful submit, while the status is UNDER_REVIEW, an
\* upload neither adds nor replaces a document.
C19_NoUploadUnderReview ==
    [][ ( /\ submitted
          /\ summary.kycStatus = "UNDER_REVIEW"
          /\ Len(Missing(documents)) = 0
          /\ last'.op \in UploadOps ) =>
          documents' = documents
      ]_vars

\* Number of required types that have a stored document.
RequiredStored(docs) == Len(RequiredDocuments) - Len(Missing(docs))

\* C20: the progress the summary is given by an upload or a delete is the
\* integer round(100 * required types stored / required types), between 0
\* and 100; optional documents do not change it, and it is 100 only when no
\* required type is missing.
C20_ProgressOverRequired ==
    last.op \in {"init", "uploadDocumentSuccess", "deleteDocumentSuccess"} =>
        /\ summary.kycProgress \in 0..100
        /\ summary.kycProgress =
              RoundPercent(RequiredStored(documents), Len(RequiredDocuments))
        /\ (summary.kycProgress = 100 => Len(Missing(documents)) = 0)

\* C21: after every upload and delete, the summary's missing types are
\* exactly the required types with no stored document, without duplicates
\* and in catalog order; on the upload page as in the slice.
C21_MissingIsRequiredMinusStored ==
    pageSummary # NullSummary =>
        pageSummary.missingDocuments = Missing(pageDocuments)

\* The slice's half of C21, which uploadDocumentSuccess and
\* deleteDocumentSuccess meet.
C21_SliceMissingIsRequiredMinusStored ==
    last.op \in {"uploadDocumentSuccess", "deleteDocumentSuccess"} =>
        summary.missingDocuments = Missing(documents)

\* C25: when two uploads of one type complete one after the other, in either
\* order, the store holds exactly one document of that type, the one applied
\* last, and totalDocuments, pendingDocuments and the missing types of the
\* summary match the resulting document list.
C25_LastUploadWins ==
    [][ ( /\ last.op \in UploadOps
          /\ last'.op \in UploadOps
          /\ last'.documentType = last.documentType ) =>
          /\ Cardinality(OfType(documents', last'.documentType)) = 1
          /\ \A i \in OfType(documents', last'.documentType) :
                documents'[i] = last'.doc[1]
          /\ summary'.totalDocuments = Len(documents')
          /\ summary'.pendingDocuments = CountStatus(documents', "PENDING")
          /\ summary'.missingDocuments = Missing(documents')
      ]_vars

\* C25 for completions applied by uploadDocumentSuccess alone, which holds.
C25_LastUploadSuccessWins ==
    [][ ( /\ last.op = "uploadDocumentSuccess"
          /\ last'.op = "uploadDocumentSuccess"
          /\ last'.documentType = last.documentType ) =>
          /\ Cardinality(OfType(documents', last'.documentType)) = 1
          /\ \A i \in OfType(documents', last'.documentType) :
                documents'[i] = last'.doc[1]
          /\ summary'.totalDocuments = Len(documents')
          /\ summary'.pendingDocuments = CountStatus(documents', "PENDING")
          /\ summary'.missingDocuments = Missing(documents')
      ]_vars

\* C26: on the upload page the summary's counts stay consistent with the
\* document list: totalDocuments is the number of documents,
\* pendingDocuments the number of PENDING ones, and no count is negative.
C26_PageCountsMatchDocuments ==
    pageSummary # NullSummary =>
        /\ pageSummary.totalDocuments = Len(pageDocuments)
        /\ pageSummary.pendingDocuments = CountStatus(pageDocuments, "PENDING")
        /\ pageSummary.totalDocuments >= 0
        /\ pageSummary.pendingDocuments >= 0
        /\ pageSummary.approvedDocuments >= 0
        /\ pageSummary.rejectedDocuments >= 0

\* The documents the summary in the slice was last computed from.
Fetched == last.op = "setSummary" /\ last.found

\* Statuses of the stored documents of one type.
StatusesOf(docs, type) == { docs[i].status : i \in OfType(docs, type) }

\* C22: the computed aggregate status is APPROVED only when every required
\* type has a stored document with status APPROVED; approved documents of
\* optional types do not make up for a rejected required one.
C22_ApprovedNeedsAllRequired ==
    (Fetched /\ summary.kycStatus = "APPROVED") =>
        \A type \in Range(RequiredDocuments) :
            StatusesOf(last.doc, type) = {"APPROVED"}

\* The rule for Rejected: all required types present, some required-type
\* document REJECTED, no document PENDING or UNDER_REVIEW.
RejectedRule(docs) ==
    /\ Len(Missing(docs)) = 0
    /\ \E type \in Range(RequiredDocuments) :
          "REJECTED" \in StatusesOf(docs, type)
    /\ CountStatus(docs, "PENDING") = 0
    /\ CountStatus(docs, "UNDER_REVIEW") = 0

\* C23: the computed aggregate status is REJECTED exactly when all required
\* types are present, some required-type document is REJECTED and no
\* document is PENDING or UNDER_REVIEW; a rejected optional document alone
\* does not make it REJECTED.
C23_RejectedExactly ==
    Fetched => (summary.kycStatus = "REJECTED" <=> RejectedRule(last.doc))

\* C24: a stored REJECTED document counts as present: its type is not among
\* the missing types, and the progress is that of the required types with a
\* stored document, rejected ones included.
C24_RejectedCountsAsPresent ==
    Fetched =>
        /\ \A i \in 1..Len(last.doc) :
              last.doc[i].status = "REJECTED" =>
                 last.doc[i].documentType \notin Range(summary.missingDocuments)
        /\ summary.kycProgress =
              RoundPercent(RequiredStored(last.doc), Len(RequiredDocuments))

\* C24 witness: the summary of a single stored document, a REJECTED
\* ID_FRONT: the other two required types are missing and progress is 33.
C24_Witness ==
    /\ Fetched
    /\ Len(last.doc) = 1
    /\ last.doc[1].documentType = "ID_FRONT"
    /\ last.doc[1].status = "REJECTED"
    /\ summary.missingDocuments = <<"UTILITY_BILL", "BANK_STATEMENT">>
    /\ summary.kycProgress = 33

\* The slice's half of C24: after uploadDocumentSuccess and
\* deleteDocumentSuccess no stored REJECTED document's type is missing.
C24_SliceRejectedCountsAsPresent ==
    last.op \in {"uploadDocumentSuccess", "deleteDocumentSuccess"} =>
        \A i \in 1..Len(documents) :
            documents[i].status = "REJECTED" =>
                documents[i].documentType \notin Range(summary.missingDocuments)

\* C30: the health probe runs once per service instance, so the check is
\* only ever completed by the constructor's probe; and once the check has
\* found the API unavailable, or a real call has failed, the API stays
\* unavailable: every later call takes the mock fallback.
C30_ProbeOnceThenMockOnly ==
    [][ /\ (~apiChecked /\ apiChecked') => (healthProbe /\ ~healthProbe')
        /\ (apiChecked /\ ~isApiAvailable) => ~isApiAvailable'
      ]_vars

\* C27: a request has its token refreshed at most once and is sent at most
\* twice; a request marked _retry that gets 401 again is rejected, with no
\* refresh, no re-send and local storage left alone.
C27_OneRefreshOneRetry ==
    [][ \A r \in Requests :
          /\ requests'[r].refreshes <= 1
          /\ requests'[r].sends <= 2
          /\ ( /\ requests[r].phase = "sent"
               /\ requests[r].retry
               /\ requests'[r] # requests[r]
               /\ requests'[r].status = 401 ) =>
                /\ requests'[r].phase = "done"
                /\ requests'[r].result = "rejected"
                /\ requests'[r].refreshes = requests[r].refreshes
                /\ requests'[r].sends = requests[r].sends
                /\ localStorage' = localStorage
      ]_vars

\* C27 witness: a request was refreshed and sent again, got 401 again and
\* was rejected.
C27_Witness ==
    \E r \in Requests :
        /\ requests[r].retry
        /\ requests[r].status = 401
        /\ requests[r].phase = "done"
        /\ requests[r].result = "rejected"
        /\ requests[r].sends = 2
        /\ requests[r].refreshes = 1

\* The 401 of request r is not recovered in this step: there is no refresh
\* token, or the refresh call throws or returns no access token.
Unrecovered(r) ==
    /\ requests'[r].phase = "done"
    /\ requests'[r].result = "rejected"
    /\ \/ /\ requests[r].phase = "sent"
          /\ ~requests[r].retry
          /\ requests'[r].status = 401
       \/ requests[r].phase = "refreshing"

\* C28: whenever a 401 is not recovered, both tokens are removed from local
\* storage; and when the requests have all received a 401 and are all
\* settled, local storage does not hold an access token without a refresh
\* token.
C28_TokensRemovedTogether ==
    [][ /\ \A r \in Requests :
              Unrecovered(r) =>
                 /\ localStorage'.accessToken = "null"
                 /\ localStorage'.refreshToken = "null"
        /\ ( /\ requests' # requests
             /\ \A r \in Requests :
                   requests'[r].phase = "done" /\ requests'[r].retry ) =>
              ~ ( /\ localStorage'.accessToken # "null"
                  /\ localStorage'.refreshToken = "null" )
      ]_vars

\* The first half of C28, which handleAuthFailure meets.
C28_UnrecoveredClearsBoth ==
    [][ \A r \in Requests :
          Unrecovered(r) =>
             /\ localStorage'.accessToken = "null"
             /\ localStorage'.refreshToken = "null"
      ]_vars

\* C29: in the auth slice isAuthenticated is true exactly when user and
\* token are both non-null, and while isAuthenticated is false no token is
\* in the state or in local storage.
C29_AuthenticatedIffUserAndToken ==
    /\ auth.isAuthenticated <=>
          (auth.user # NullUser /\ auth.token # "null")
    /\ ~auth.isAuthenticated =>
          /\ auth.token = "null"
          /\ localStorage.accessToken = "null"

\* The first half of C29, which the reducers meet.
C29_AuthenticatedIff ==
    auth.isAuthenticated <=> (auth.user # NullUser /\ auth.token # "null")

====
